---- MODULE Spec2Model ----
(***************************************************************************)
(* A model of the service worker of sw-todo-web-app (src/sw.js): the        *)
(* install/activate lifecycle, the versioned asset cache, the promise       *)
(* wrappers over IndexedDB (set, get, update, del, entries), the todo       *)
(* domain functions, the page assembly (list, generateTodos,                *)
(* spliceResponseWithData, escapeHtml) and the fetch listener's routes.     *)
(*                                                                          *)
(* JavaScript values are modelled as follows: an object is a record,        *)
(* undefined is the record Undefined, a string that the code only compares  *)
(* is a TLA+ string, and a string the code transforms (a request body, a    *)
(* title) is a sequence of one-character strings.                           *)
(***************************************************************************)
EXTENDS Integers, Sequences, FiniteSets, TLC

\* ------------------------------------------------------------------ bounds
\* Number of store calls issued directly against the store API (SpecStore).
MaxOps == 2
\* Number of fetch events dispatched to the worker (Spec).
MaxRequests == 2
\* Number of items handed to spliceResponseWithData (SpecSplice).
MaxItems == 2

\* --------------------------------------------------------------- constants
VERSION == "0.0.1"
STATIC_CACHE_NAME == "static-cache_0.0.1"
\* Cache generations left behind by earlier deployments, oldest first.
OldCacheNames == <<"static-cache_0.0.0", "other-cache">>
assets == {"/", "/index.html", "/main.js"}

\* ------------------------------------------------------------------ values
Undefined == [jsType |-> "undefined"]
\* URLSearchParams.get on a missing parameter: null, which is no valid
\* IndexedDB key.
NullKey == "<null>"
ValidKey(key) == key # NullKey

\* Object spread: ...undefined contributes no property.
Spread(v) == IF v = Undefined THEN <<>> ELSE v

TodoItem(id, title, completed) ==
    [id |-> id, title |-> title, completed |-> completed]

\* A completion that flips the flag instead of setting it.
toggleTodo(todo) ==
    [completed |-> IF todo = Undefined THEN TRUE ELSE ~todo.completed]
        @@ Spread(todo)

completeTodo(todo) == [completed |-> TRUE] @@ Spread(todo)

IsTodoItem(v) == DOMAIN v = {"id", "title", "completed"}

\* ------------------------------------------------------- the object store
\* The object store's content is a function from the keys present to their
\* values.  IndexedDB enumerates keys in ascending key order; KeyOrder is
\* that order on the keys the model uses.
KeyOrder == <<"ghost", "id1", "id2", "id3", "id4", "id5">>

Lookup(db, key) == IF key \in DOMAIN db THEN db[key] ELSE Undefined

RECURSIVE SortedFrom(_, _)
SortedFrom(present, i) ==
    IF i > Len(KeyOrder) THEN <<>>
    ELSE IF KeyOrder[i] \in present
         THEN <<KeyOrder[i]>> \o SortedFrom(present, i + 1)
         ELSE SortedFrom(present, i + 1)

\* IDBObjectStore.getAllKeys() and getAll(): both in ascending key order.
GetAllKeys(db) == SortedFrom(DOMAIN db, 1)
GetAll(db) == [i \in 1..Len(GetAllKeys(db)) |-> db[GetAllKeys(db)[i]]]

\* A write a transaction holds until it commits.
NoWrite == [w |-> "none"]
PutWrite(v) == [w |-> "put", v |-> v]
DeleteWrite == [w |-> "delete"]

ApplyWrite(db, key, wr) ==
    IF wr.w = "put" THEN (key :> wr.v) @@ db
    ELSE IF wr.w = "delete" THEN [k \in DOMAIN db \ {key} |-> db[k]]
    ELSE db

\* ------------------------------------------------------------- store calls
\* The updaters handed to update(): the worker's completeTodo, and one that
\* throws.
Updaters == {"completeTodo", "throws"}
Throws(upd, v) == upd = "throws"
Apply(upd, v) == IF upd = "completeTodo" THEN completeTodo(v) ELSE Undefined

\* A call of one of the five wrappers, before its transaction exists: the
\* transaction mode it asks createStore for and the requests it places, in
\* order, ending with the transaction's commit.  pre, wrote, readAt and doneAt
\* are history: the value the key had as the call's write committed, the write
\* committed, and the transaction creation numbers current at the call's read
\* and at its commit.
Call(kind, key, val, upd, mode, plan) ==
    [kind |-> kind, key |-> key, val |-> val, upd |-> upd, mode |-> mode,
     plan |-> plan, pc |-> 1, st |-> "queued", seq |-> 0,
     result |-> Undefined, keys |-> <<>>, gotKeys |-> FALSE,
     wbuf |-> NoWrite, promise |-> "pending", out |-> Undefined,
     chained |-> FALSE, pre |-> Undefined, wrote |-> NoWrite,
     readAt |-> 0, doneAt |-> 0]

set(key, value) ==
    Call("set", key, value, "none", "readwrite", <<"put", "commit">>)

get(key) ==
    Call("get", key, Undefined, "none", "readonly", <<"get", "commit">>)

\* A read and a write in two transactions: get(key).then(v => set(key, f(v))).
updateInTwoTransactions(key, updater) ==
    Call("update", key, Undefined, updater, "readwrite",
         <<"get", "commit", "put", "commit">>)

update(key, updater) ==
    Call("update", key, Undefined, updater, "readwrite",
         <<"get", "put", "commit">>)

\* A delete written as an overwrite: store.put(undefined, key).
delByPuttingUndefined(key) ==
    Call("del", key, Undefined, "none", "readwrite", <<"put", "commit">>)

del(key) ==
    Call("del", key, Undefined, "none", "readwrite", <<"delete", "commit">>)

entries ==
    Call("entries", NullKey, Undefined, "none", "readonly",
         <<"getAllKeys", "getAll", "commit">>)

\* No call of spliceResponseWithData is under way.
NoCall == [called |-> FALSE]

\* ------------------------------------------------------------------- state
VARIABLES
    store,      \* the global store: "undefined" or "created" (a createStore handle)
    dbState,    \* dbPromise of createStore: "closed", "opening", "open", "failed"
    db,         \* the content of the object store "todos"
    ops,        \* the store calls issued so far, each with its transaction
    nextSeq,    \* the creation number the next transaction gets
    swState,    \* the worker's lifecycle state
    initPc,     \* where init() stands
    activateWait, \* the promise the activate event's waitUntil tracks
    activateWork, \* where the activate listener's async function stands
    caches,     \* CacheStorage: the cache generations, in creation order
    reqs,       \* the fetch events dispatched so far, each with its task
    spliceCall  \* a call of spliceResponseWithData: its arguments and result

storeVars == <<store, dbState, db, ops, nextSeq>>
workerVars ==
    <<swState, initPc, activateWait, activateWork, caches, reqs, spliceCall>>
vars == <<store, dbState, db, ops, nextSeq, swState, initPc, activateWait,
          activateWork, caches, reqs, spliceCall>>

\* ---------------------------------------------------- createStore's closure
\* fn(db.transaction(storeName, mode).objectStore(storeName)): the part of a
\* wrapper that runs as its transaction is created.  A request placed with an
\* invalid key throws DataError before any request exists, which rejects the
\* wrapper's promise and leaves a transaction with nothing to do.  set and
\* del attach promisifyRequest(store.transaction) here.
Begin(op, seq) ==
    IF op.kind \in {"set", "get", "update", "del"} /\ ~ValidKey(op.key)
    THEN [op EXCEPT !.st = "live", !.seq = seq, !.plan = <<"commit">>,
                    !.promise = "rejected"]
    ELSE [op EXCEPT !.st = "live", !.seq = seq,
                    !.chained = (op.kind \in {"set", "del"})]

\* dbPromise.then(...) of a rejected dbPromise: the wrapper rejects, no
\* transaction is created.
NoDatabase(op) == [op EXCEPT !.st = "nodb", !.promise = "rejected"]

QueuedBefore(i) == Cardinality({j \in 1..(i - 1) : ops[j].st = "queued"})

\* IndexedDB's transaction scheduling: transactions on the one object store
\* overlap in scope, so a read-write transaction starts only when every
\* transaction created before it has finished, and a read-only one when
\* every read-write transaction created before it has.
Conflicts(a, b) == a.mode = "readwrite" \/ b.mode = "readwrite"

CanRun(i) ==
    /\ ops[i].st = "live"
    /\ \A j \in DOMAIN ops :
          (j # i /\ ops[j].st = "live" /\ ops[j].seq < ops[i].seq)
              => ~Conflicts(ops[i], ops[j])

Step(op) == op.plan[op.pc]

\* keys.map((key, idx) => [key, values[idx]])
Zip(keys, values) ==
    [i \in 1..Len(keys) |->
        <<keys[i], IF i <= Len(values) THEN values[i] ELSE Undefined>>]

\* What a request reads from the object store.
ReadOf(op, content) ==
    CASE Step(op) = "get" -> Lookup(content, op.key)
      [] Step(op) = "getAllKeys" -> GetAllKeys(content)
      [] Step(op) = "getAll" -> GetAll(content)
      [] OTHER -> Undefined

\* update's onsuccess without its try/catch: the updater's exception escapes
\* the handler, the promise is left alone and the put is placed all the same.
updateOnSuccessNoCatch(op, res) ==
    [op EXCEPT !.result = res, !.chained = TRUE, !.pc = @ + 1]

\* update's request.onsuccess: the put of updater(request.result) and
\* resolve(promisifyRequest(store.transaction)), or reject(err) when the
\* updater (or the put) throws, in which case no put is placed.
updateOnSuccess(op, res) ==
    IF Throws(op.upd, res)
    THEN [op EXCEPT !.result = res, !.promise = "rejected",
                    !.plan = SubSeq(op.plan, 1, op.pc) \o <<"commit">>,
                    !.pc = @ + 1]
    ELSE [op EXCEPT !.result = res, !.chained = TRUE, !.pc = @ + 1]

\* The success handlers each wrapper registers on its requests.
OnSuccess(op, res) ==
    CASE Step(op) = "get" /\ op.kind = "get" ->
            [op EXCEPT !.result = res, !.promise = "resolved", !.out = res,
                       !.pc = @ + 1]
      [] Step(op) = "get" /\ op.kind = "update" -> updateOnSuccess(op, res)
      [] Step(op) = "put" ->
            [op EXCEPT !.wbuf = PutWrite(IF op.kind = "set" THEN op.val
                                         ELSE Apply(op.upd, op.result)),
                       !.pc = @ + 1]
      [] Step(op) = "delete" ->
            [op EXCEPT !.wbuf = DeleteWrite, !.pc = @ + 1]
      [] Step(op) = "getAllKeys" ->
            [op EXCEPT !.keys = res, !.gotKeys = TRUE, !.pc = @ + 1]
      [] Step(op) = "getAll" ->
            [op EXCEPT !.result = res,
                       !.promise = IF op.promise = "pending" /\ op.gotKeys
                                   THEN "resolved" ELSE @,
                       !.out = IF op.promise = "pending" /\ op.gotKeys
                               THEN Zip(op.keys, res) ELSE @,
                       !.pc = @ + 1]

\* The transaction's abort: promisifyRequest(store.transaction), where a
\* wrapper attached it, rejects.
OnAbort(op) ==
    [op EXCEPT !.st = "aborted", !.wbuf = NoWrite,
               !.promise = IF op.chained /\ op.promise = "pending"
                           THEN "rejected" ELSE @]

\* A request's error: promisifyRequest(request), where a wrapper attached it
\* (get, entries), rejects; update sets onsuccess alone.  The unhandled error
\* aborts the transaction.
OnError(op) ==
    OnAbort([op EXCEPT !.promise =
                IF op.kind \in {"get", "entries"} /\ op.promise = "pending"
                THEN "rejected" ELSE @])

\* The transaction's completion, after its last request.
OnComplete(op) ==
    [op EXCEPT !.st = "committed", !.wbuf = NoWrite, !.pc = @ + 1,
               !.promise = IF op.chained /\ op.promise = "pending"
                           THEN "resolved" ELSE @]

\* ------------------------------------------------------ issuing store calls
\* customStore = defaultGetStore(): creates the store handle on first use;
\* then customStore(mode, fn) runs fn once dbPromise has resolved.
Issue(op) ==
    LET state == IF store = "undefined" THEN "opening" ELSE dbState
    IN /\ store' = "created"
       /\ dbState' = state
       /\ db' = db
       /\ IF state = "open"
          THEN /\ ops' = Append(ops, Begin(op, nextSeq))
               /\ nextSeq' = nextSeq + 1
          ELSE /\ ops' = Append(ops, IF state = "failed" THEN NoDatabase(op)
                                     ELSE op)
               /\ nextSeq' = nextSeq

\* ------------------------------------------------------ the storage engine
\* indexedDB.open succeeds: dbPromise resolves and the waiting closures run
\* in the order the calls were made.
DbOpened ==
    /\ dbState = "opening"
    /\ dbState' = "open"
    /\ ops' = [i \in DOMAIN ops |->
                 IF ops[i].st = "queued"
                 THEN Begin(ops[i], nextSeq + QueuedBefore(i)) ELSE ops[i]]
    /\ nextSeq' = nextSeq + QueuedBefore(Len(ops) + 1)
    /\ UNCHANGED <<store, db>>
    /\ UNCHANGED workerVars

\* indexedDB.open fails: dbPromise rejects, and with it every call made
\* through this handle.
DbOpenFails ==
    /\ dbState = "opening"
    /\ dbState' = "failed"
    /\ ops' = [i \in DOMAIN ops |->
                 IF ops[i].st = "queued" THEN NoDatabase(ops[i]) ELSE ops[i]]
    /\ UNCHANGED <<store, db, nextSeq>>
    /\ UNCHANGED workerVars

RequestSucceeds(i) ==
    /\ CanRun(i)
    /\ Step(ops[i]) # "commit"
    /\ ops' = [ops EXCEPT ![i] =
                  [OnSuccess(ops[i], ReadOf(ops[i], db)) EXCEPT
                      !.readAt = IF Step(ops[i]) = "get" THEN nextSeq ELSE @]]
    /\ UNCHANGED <<store, dbState, db, nextSeq>>
    /\ UNCHANGED workerVars

RequestFails(i) ==
    /\ CanRun(i)
    /\ Step(ops[i]) # "commit"
    /\ ops' = [ops EXCEPT ![i] = OnError(ops[i])]
    /\ UNCHANGED <<store, dbState, db, nextSeq>>
    /\ UNCHANGED workerVars

\* The transaction commits once its requests are done.  When the wrapper goes
\* on in another transaction, that one is created now.
Commits(i) ==
    /\ CanRun(i)
    /\ Step(ops[i]) = "commit"
    /\ db' = ApplyWrite(db, ops[i].key, ops[i].wbuf)
    /\ LET done == [ops[i] EXCEPT
                       !.pre = IF ops[i].wbuf = NoWrite THEN @
                               ELSE Lookup(db, ops[i].key),
                       !.wrote = IF ops[i].wbuf = NoWrite THEN @
                                 ELSE ops[i].wbuf,
                       !.doneAt = nextSeq]
       IN IF ops[i].pc = Len(ops[i].plan)
          THEN /\ ops' = [ops EXCEPT ![i] = OnComplete(done)]
               /\ nextSeq' = nextSeq
          ELSE /\ ops' = [ops EXCEPT ![i] =
                            [done EXCEPT !.pc = @ + 1, !.wbuf = NoWrite,
                                         !.seq = nextSeq]]
               /\ nextSeq' = nextSeq + 1
    /\ UNCHANGED <<store, dbState>>
    /\ UNCHANGED workerVars

\* The commit of pending writes fails (quota, I/O): the transaction aborts.
CommitFails(i) ==
    /\ CanRun(i)
    /\ Step(ops[i]) = "commit"
    /\ ops[i].wbuf # NoWrite
    /\ ops' = [ops EXCEPT ![i] = OnAbort(ops[i])]
    /\ UNCHANGED <<store, dbState, db, nextSeq>>
    /\ UNCHANGED workerVars

Engine ==
    \/ DbOpened
    \/ DbOpenFails
    \/ \E i \in DOMAIN ops : RequestSucceeds(i)
    \/ \E i \in DOMAIN ops : RequestFails(i)
    \/ \E i \in DOMAIN ops : Commits(i)
    \/ \E i \in DOMAIN ops : CommitFails(i)

\* ------------------------------------------- the store API, called directly
StoreKeys == {"id1", "id2", NullKey}
StoreValues(key) == {TodoItem(key, <<"a">>, FALSE), TodoItem(key, <<"b">>, TRUE)}
InitialDbs == {<<>>, "id1" :> TodoItem("id1", <<"a">>, FALSE)}

CallSet(key, value) ==
    Len(ops) < MaxOps /\ Issue(set(key, value)) /\ UNCHANGED workerVars
CallGet(key) ==
    Len(ops) < MaxOps /\ Issue(get(key)) /\ UNCHANGED workerVars
CallUpdate(key, updater) ==
    Len(ops) < MaxOps /\ Issue(update(key, updater)) /\ UNCHANGED workerVars
CallDel(key) ==
    Len(ops) < MaxOps /\ Issue(del(key)) /\ UNCHANGED workerVars
CallEntries ==
    Len(ops) < MaxOps /\ Issue(entries) /\ UNCHANGED workerVars

InitStore ==
    /\ store = "undefined"
    /\ dbState = "closed"
    /\ db \in InitialDbs
    /\ ops = <<>>
    /\ nextSeq = 1
    /\ swState = "activated"
    /\ initPc = "done"
    /\ activateWait = "fulfilled"
    /\ activateWork = "notCalled"
    /\ caches = <<>>
    /\ reqs = <<>>
    /\ spliceCall = NoCall

NextStore ==
    \/ \E key \in StoreKeys : \E value \in StoreValues(key) : CallSet(key, value)
    \/ \E key \in StoreKeys : CallGet(key)
    \/ \E key \in StoreKeys : \E updater \in Updaters : CallUpdate(key, updater)
    \/ \E key \in StoreKeys : CallDel(key)
    \/ CallEntries
    \/ Engine

SpecStore == InitStore /\ [][NextStore]_vars

\* -------------------------------------------------------------------- text
\* A string the code transforms is a sequence of one-character strings.  The
\* grave accent cannot be written in a TLA+ string and is named instead.
Backtick == "U+0060"

ENTITY_MAP ==
    ("&" :> <<"&", "a", "m", "p", ";">>) @@
    ("<" :> <<"&", "l", "t", ";">>) @@
    (">" :> <<"&", "g", "t", ";">>) @@
    ("\"" :> <<"&", "q", "u", "o", "t", ";">>) @@
    ("'" :> <<"&", "#", "3", "9", ";">>) @@
    ("/" :> <<"&", "#", "x", "2", "F", ";">>) @@
    (Backtick :> <<"&", "#", "x", "6", "0", ";">>) @@
    ("=" :> <<"&", "#", "x", "3", "D", ";">>)

\* unsafe.replace(..., s => ENTITY_MAP[s]): every character that ENTITY_MAP
\* has an entry for is replaced by the entry.
RECURSIVE escapeHtml(_)
escapeHtml(unsafe) ==
    IF unsafe = <<>> THEN <<>>
    ELSE (IF Head(unsafe) \in DOMAIN ENTITY_MAP THEN ENTITY_MAP[Head(unsafe)]
          ELSE <<Head(unsafe)>>) \o escapeHtml(Tail(unsafe))

Occurs(c, text) == \E i \in 1..Len(text) : text[i] = c
FirstIndex(c, text) ==
    CHOOSE i \in 1..Len(text) :
        text[i] = c /\ \A j \in 1..(i - 1) : text[j] # c

RECURSIVE SplitOn(_, _)
SplitOn(text, sep) ==
    IF Occurs(sep, text)
    THEN <<SubSeq(text, 1, FirstIndex(sep, text) - 1)>>
         \o SplitOn(SubSeq(text, FirstIndex(sep, text) + 1, Len(text)), sep)
    ELSE <<text>>

PlusToSpace(text) ==
    [i \in 1..Len(text) |-> IF text[i] = "+" THEN " " ELSE text[i]]

NonEmpty(text) == text # <<>>

\* The application/x-www-form-urlencoded parser behind new URLSearchParams(text):
\* the body is split at "&", empty pieces are dropped, each piece is split at
\* its first "=" into a name and a value, and "+" decodes to a space.  (The
\* bodies of the model hold no percent escapes.)
FormPair(piece) ==
    IF Occurs("=", piece)
    THEN <<PlusToSpace(SubSeq(piece, 1, FirstIndex("=", piece) - 1)),
           PlusToSpace(SubSeq(piece, FirstIndex("=", piece) + 1, Len(piece)))>>
    ELSE <<PlusToSpace(piece), <<>>>>

URLSearchParams(text) ==
    LET pieces == SelectSeq(SplitOn(text, "&"), NonEmpty)
    IN [i \in 1..Len(pieces) |-> FormPair(pieces[i])]

\* ---------------------------------------------------------------- the page
\* The text a template literal produces is the sequence of its literal chunks
\* (each one element, written as in the source) and of the characters of the
\* values it interpolates.
UndefinedText == <<"u", "n", "d", "e", "f", "i", "n", "e", "d">>

\* An array that a caller may also leave out: the record Array(elements), to
\* be told from Undefined.
Array(elements) == [array |-> elements]

\* What destructuring { id, title, completed } reads off an item and hands to
\* list, each as list uses it: id and title as ${...} reads them (undefined
\* reads "undefined"; an id, a string the model does not look into, is a text
\* of one element), completed as the condition of ?: takes it (undefined is
\* falsy).
IdOf(item) == IF "id" \in DOMAIN item THEN <<item.id>> ELSE UndefinedText
TitleOf(item) == IF "title" \in DOMAIN item THEN item.title ELSE UndefinedText
CompletedOf(item) == IF "completed" \in DOMAIN item THEN item.completed ELSE FALSE

list(id, title, completed) ==
    <<"\n    <li>\n      ">>
    \o (IF completed
        THEN <<"<s>">> \o title
             \o <<"</s> <a href=\"/delete?id=">> \o id
             \o <<"\">Delete</a>">>
        ELSE <<"<a href=\"/complete?id=">> \o id
             \o <<"\">Complete</a> ">> \o title
             \o <<" <a href=\"/delete?id=">> \o id
             \o <<"\">Delete</a>">>)
    \o <<"\n    </li>\n  ">>

\* data.map(({ id, title, completed }) => list(id, title, completed)).join("")
RECURSIVE MapListJoin(_)
MapListJoin(elements) ==
    IF elements = <<>> THEN <<>>
    ELSE list(IdOf(Head(elements)), TitleOf(Head(elements)),
              CompletedOf(Head(elements)))
         \o MapListJoin(Tail(elements))

generateTodos(data) ==
    <<"\n    <ul slot=\"todo-list\">\n      ">>
    \o MapListJoin(data.array)
    \o <<"\n    </ul>\n  ">>

lazyBoundary ==
    <<"<", "!", "-", "-", " ", "l", "a", "z", "y", " ", "-", "-", ">">>

StartsAt(text, pattern, i) ==
    /\ i + Len(pattern) - 1 <= Len(text)
    /\ SubSeq(text, i, i + Len(pattern) - 1) = pattern

Includes(text, pattern) == \E i \in 1..Len(text) : StartsAt(text, pattern, i)

IndexOf(text, pattern) ==
    CHOOSE i \in 1..Len(text) :
        StartsAt(text, pattern, i)
            /\ \A j \in 1..(i - 1) : ~StartsAt(text, pattern, j)

\* String.prototype.split(separator): the pieces between the occurrences of
\* the separator, the whole text when there is none.
RECURSIVE split(_, _)
split(text, separator) ==
    IF Includes(text, separator)
    THEN <<SubSeq(text, 1, IndexOf(text, separator) - 1)>>
         \o split(SubSeq(text, IndexOf(text, separator) + Len(separator),
                         Len(text)), separator)
    ELSE <<text>>

\* A splice that leaves out what follows the marker.
spliceResponseDroppingTail(cachedContent, data) ==
    IF data = Undefined THEN cachedContent
    ELSE <<"\n    ">> \o split(cachedContent, lazyBoundary)[1]
         \o <<"\n    ">> \o generateTodos(data) \o <<"\n    ", "\n  ">>

\* if (!data) return cachedContent: data is null or undefined (an array, the
\* empty one too, is truthy).  const [head, tail] = ...split(lazyBoundary)
\* takes the first two pieces; tail is undefined when there is one piece and
\* ${tail} then reads "undefined".
spliceResponseWithData(cachedContent, data) ==
    IF data = Undefined THEN cachedContent
    ELSE LET pieces == split(cachedContent, lazyBoundary)
             head == pieces[1]
             tail == IF Len(pieces) >= 2 THEN pieces[2] ELSE UndefinedText
         IN <<"\n    ">> \o head
            \o <<"\n    ">> \o generateTodos(data)
            \o <<"\n    ">> \o tail
            \o <<"\n  ">>

\* ----------------------------------- spliceResponseWithData, called directly
\* The documents a cache can hold for "/": nothing, a marker or two markers
\* between a head and a tail, or a marker cut short.
Heads == {<<>>, <<"<", "a", ">">>}
Tails == {<<>>, <<"<", "b", ">">>}
Middles ==
    { <<>>,
      lazyBoundary,
      lazyBoundary \o <<"x">> \o lazyBoundary,
      SubSeq(lazyBoundary, 1, 4) }
Shells == {h \o m \o t : h \in Heads, m \in Middles, t \in Tails}

\* The values entries() can hold: items as createTodo and completeTodo make
\* them, and the record completeTodo makes of undefined.
Items ==
    { TodoItem("id1", <<"a">>, FALSE),
      TodoItem("id2", <<"b">>, TRUE),
      completeTodo(Undefined) }

RECURSIVE SeqsUpTo(_, _)
SeqsUpTo(S, n) ==
    IF n = 0 THEN {<<>>}
    ELSE SeqsUpTo(S, n - 1)
         \cup {Append(q, x) : q \in {r \in SeqsUpTo(S, n - 1) : Len(r) = n - 1},
                              x \in S}

\* A call of spliceResponseWithData that has not returned yet.
SpliceCalled(cachedContent, data) ==
    [called |-> TRUE, cachedContent |-> cachedContent, data |-> data,
     returned |-> FALSE, newBody |-> Undefined]

InitSplice ==
    /\ store = "undefined"
    /\ dbState = "closed"
    /\ db = <<>>
    /\ ops = <<>>
    /\ nextSeq = 1
    /\ swState = "activated"
    /\ initPc = "done"
    /\ activateWait = "fulfilled"
    /\ activateWork = "notCalled"
    /\ caches = <<>>
    /\ reqs = <<>>
    /\ \E c \in Shells :
          \/ \E d \in SeqsUpTo(Items, MaxItems) :
                spliceCall = SpliceCalled(c, Array(d))
          \/ spliceCall = SpliceCalled(c, Undefined)

SpliceReturns ==
    /\ spliceCall.called /\ ~spliceCall.returned
    /\ spliceCall' =
          [spliceCall EXCEPT
              !.returned = TRUE,
              !.newBody = spliceResponseWithData(spliceCall.cachedContent,
                                                 spliceCall.data)]
    /\ UNCHANGED storeVars
    /\ UNCHANGED <<swState, initPc, activateWait, activateWork, caches, reqs>>

NextSplice == SpliceReturns

SpecSplice == InitSplice /\ [][NextSplice]_vars

\* ------------------------------------------------------------ CacheStorage
\* A cache generation is a name and the requests it holds a response for; a
\* request is identified by its path and its query string.
Url(path, search) == [path |-> path, search |-> search]
AssetUrls == {Url(a, "") : a \in assets}

CacheNames(cs) == {cs[i].name : i \in DOMAIN cs}

\* caches.open(name): the cache of that name, created when there is none.
CachesOpen(cs, name) ==
    IF name \in CacheNames(cs) THEN cs
    ELSE Append(cs, [name |-> name, urls |-> {}])

\* cache.put / cache.addAll on the cache called name.
CachePutAll(cs, name, urls) ==
    [i \in DOMAIN cs |->
        IF cs[i].name = name THEN [cs[i] EXCEPT !.urls = @ \cup urls]
        ELSE cs[i]]

Response(status, from, url) ==
    [kind |-> "response", status |-> status, from |-> from, url |-> url]
NetworkResponse(url) == Response(200, "network", url)
NetworkError == [kind |-> "error"]
Pending == [kind |-> "pending"]
Fallthrough == [kind |-> "fallthrough"]

\* caches.match(request): CacheStorage.match looks through every cache, in
\* creation order, and answers the first match, or undefined.
CachesMatch(cs, url) ==
    IF \E i \in DOMAIN cs : url \in cs[i].urls
    THEN LET i == CHOOSE i \in DOMAIN cs :
                      /\ url \in cs[i].urls
                      /\ \A j \in 1..(i - 1) : url \notin cs[j].urls
         IN Response(200, cs[i].name, url)
    ELSE Undefined

IsCurrent(c) == c.name = STATIC_CACHE_NAME

\* cleanCache(): caches.delete of every key that is not STATIC_CACHE_NAME.
cleanCache(cs) == SelectSeq(cs, IsCurrent)

\* ---------------------------------------------------------------- lifecycle
\* ExtendableEvent.waitUntil(f) takes a promise: a promise is tracked until it
\* settles, and any other value is converted to an already fulfilled promise.
\* A function handed to it is never called.
WaitUntil(argument) == IF argument = "promise" THEN "pending" ELSE "fulfilled"

\* The install listener: e.waitUntil(init()); self.skipWaiting().  init() runs
\* up to its first await, caches.open in cacheStatic.
InstallEvent ==
    /\ swState = "parsed"
    /\ swState' = "installing"
    /\ initPc' = "open"
    /\ UNCHANGED <<activateWait, activateWork, caches, reqs>>
    /\ UNCHANGED spliceCall
    /\ UNCHANGED storeVars

\* cacheStatic: caches.open(STATIC_CACHE_NAME) has resolved.
CacheStaticOpened ==
    /\ initPc = "open"
    /\ caches' = CachesOpen(caches, STATIC_CACHE_NAME)
    /\ initPc' = "addAll"
    /\ UNCHANGED <<swState, activateWait, activateWork, reqs>>
    /\ UNCHANGED spliceCall
    /\ UNCHANGED storeVars

\* cache.addAll(assets) has resolved: every asset was fetched and stored.
\* init goes on to store = createStore(...), which opens the database, and
\* the install event's promise fulfils.
CacheStaticAdded ==
    /\ initPc = "addAll"
    /\ caches' = CachePutAll(caches, STATIC_CACHE_NAME, AssetUrls)
    /\ initPc' = "done"
    /\ store' = "created"
    /\ dbState' = "opening"
    /\ swState' = "installed"
    /\ UNCHANGED <<activateWait, activateWork, reqs, db, ops, nextSeq>>
    /\ UNCHANGED spliceCall

\* A populate that stores each asset on its own and ignores a failed fetch:
\* the assets that could be fetched are stored and init goes on.
CacheStaticSettlesEach ==
    /\ initPc = "addAll"
    /\ caches' = CachePutAll(caches, STATIC_CACHE_NAME, {Url("/", "")})
    /\ initPc' = "done"
    /\ store' = "created"
    /\ dbState' = "opening"
    /\ swState' = "installed"
    /\ UNCHANGED <<activateWait, activateWork, spliceCall, reqs>>
    /\ UNCHANGED <<db, ops, nextSeq>>

\* cache.addAll(assets) has rejected (a fetch failed): nothing is stored, init
\* rejects before it creates the store, and the installation fails.
CacheStaticFails ==
    /\ initPc = "addAll"
    /\ initPc' = "failed"
    /\ swState' = "redundant"
    /\ UNCHANGED <<activateWait, activateWork, caches, reqs>>
    /\ UNCHANGED spliceCall
    /\ UNCHANGED storeVars

\* The activate listener: e.waitUntil(async () => {...}) hands waitUntil the
\* async function itself, not its promise.  (skipWaiting lets the installed
\* worker activate without waiting for clients of an older one to go.)
ActivateEvent ==
    /\ swState = "installed"
    /\ swState' = "activating"
    /\ activateWait' = WaitUntil("function")
    /\ activateWork' = "notCalled"
    /\ UNCHANGED <<initPc, caches, reqs, spliceCall>>
    /\ UNCHANGED storeVars

\* The activate event is finished once what waitUntil tracks has settled.
Activated ==
    /\ swState = "activating"
    /\ activateWait = "fulfilled"
    /\ swState' = "activated"
    /\ UNCHANGED <<initPc, activateWait, activateWork, caches, reqs>>
    /\ UNCHANGED spliceCall
    /\ UNCHANGED storeVars

\* ------------------------------------------------------------- fetch events
redirect(path) == [kind |-> "response", status |-> 303, location |-> path]

\* A fetch event and its task: the request (path, query string, the id
\* parameter, the body), where the task stands, the store call it made, what
\* respondWith got, and counters of the network fetches and cache writes the
\* task performed.
Task(path, search, id, body) ==
    [path |-> path, search |-> search, id |-> id, body |-> body,
     pc |-> "done", op |-> 0, resp |-> Fallthrough, threw |-> FALSE,
     matched |-> Undefined, fetches |-> 0, puts |-> 0]

\* The ids a client can name: those of the todos a page has shown, that is
\* the keys a set has committed; an id no todo ever had; and no id at all.
Known == {ops[i].key : i \in {j \in DOMAIN ops :
                                ops[j].kind = "set" /\ ops[j].st = "committed"}}
IdParams == Known \cup {"ghost", NullKey}

\* self.crypto.randomUUID(): an id no earlier call returned.
FreshId ==
    KeyOrder[2 + Cardinality({i \in DOMAIN ops : ops[i].kind = "set"})]

createTodo(title) ==
    LET id == FreshId
    IN <<id, TodoItem(id, title, FALSE)>>

TitleName == <<"t", "i", "t", "l", "e">>
Bodies ==
    { <<>>,
      TitleName \o <<"=", "a", "+", "b">>,
      TitleName \o <<"=", "<", "a">>,
      <<"x", "=", "y", "&">> \o TitleName \o <<"=", "a">> }

\* path === "/" || path === "/index.html": e.respondWith(respondWithSpliced()),
\* which starts with caches.match("/").
RouteRoot(t) ==
    /\ reqs' = Append(reqs, [t EXCEPT !.pc = "shell", !.resp = Pending])
    /\ UNCHANGED <<swState, initPc, activateWait, activateWork, caches>>
    /\ UNCHANGED spliceCall
    /\ UNCHANGED storeVars

\* path === "/create": e.waitUntil(e.request.text().then(...)) and
\* e.respondWith(redirect("/")).
RouteCreate(t) ==
    /\ reqs' = Append(reqs, [t EXCEPT !.pc = "text", !.resp = redirect("/")])
    /\ UNCHANGED <<swState, initPc, activateWait, activateWork, caches>>
    /\ UNCHANGED spliceCall
    /\ UNCHANGED storeVars

\* A /delete branch that answers only after the write: the redirect once
\* del(id) has resolved, a failed response if it rejected.
RouteDeleteAwaitingWrite(t) ==
    \/ /\ Issue(del(t.id))
       /\ reqs' = Append(reqs, [t EXCEPT !.op = Len(ops) + 1, !.pc = "await",
                                         !.resp = Pending])
       /\ UNCHANGED <<swState, initPc, activateWait, activateWork, caches>>
       /\ UNCHANGED spliceCall
    \/ /\ \E r \in DOMAIN reqs :
            /\ reqs[r].pc = "await"
            /\ ops[reqs[r].op].promise # "pending"
            /\ reqs' = [reqs EXCEPT
                          ![r].pc = "done",
                          ![r].resp = IF ops[reqs[r].op].promise = "resolved"
                                      THEN redirect("/") ELSE NetworkError]
       /\ UNCHANGED <<swState, initPc, activateWait, activateWork, caches>>
       /\ UNCHANGED spliceCall
       /\ UNCHANGED storeVars

\* path === "/delete": e.waitUntil(del(id)); e.respondWith(redirect("/")).
RouteDelete(t) ==
    /\ Issue(del(t.id))
    /\ reqs' = Append(reqs, [t EXCEPT !.op = Len(ops) + 1,
                                      !.resp = redirect("/")])
    /\ UNCHANGED <<swState, initPc, activateWait, activateWork, caches>>
    /\ UNCHANGED spliceCall

\* path === "/complete": e.waitUntil(update(id, completeTodo));
\* e.respondWith(redirect("/")).
RouteComplete(t) ==
    /\ Issue(update(t.id, "completeTodo"))
    /\ reqs' = Append(reqs, [t EXCEPT !.op = Len(ops) + 1,
                                      !.resp = redirect("/")])
    /\ UNCHANGED <<swState, initPc, activateWait, activateWork, caches>>
    /\ UNCHANGED spliceCall

\* assets.includes(path): e.respondWith(respondWithCache(e.request)), which
\* starts with caches.match(request).
RouteAsset(t) ==
    /\ reqs' = Append(reqs, [t EXCEPT !.pc = "match", !.resp = Pending])
    /\ UNCHANGED <<swState, initPc, activateWait, activateWork, caches>>
    /\ UNCHANGED spliceCall
    /\ UNCHANGED storeVars

\* No branch taken: respondWith is not called and the browser handles the
\* request itself.
RouteNone(t) ==
    /\ reqs' = Append(reqs, t)
    /\ UNCHANGED <<swState, initPc, activateWait, activateWork, caches>>
    /\ UNCHANGED spliceCall
    /\ UNCHANGED storeVars

\* The fetch listener.  Fetch events reach a worker once it is activated.
FetchEvent(t) ==
    /\ swState = "activated"
    /\ Len(reqs) < MaxRequests
    /\ IF t.path = "/" \/ t.path = "/index.html" THEN RouteRoot(t)
       ELSE IF t.path = "/create" THEN RouteCreate(t)
       ELSE IF t.path = "/delete" THEN RouteDelete(t)
       ELSE IF t.path = "/complete" THEN RouteComplete(t)
       ELSE IF t.path \in assets THEN RouteAsset(t)
       ELSE RouteNone(t)

\* A /create chain that stores the first value as it came, unescaped.
CreateBodyReadUnescaped(r) ==
    /\ reqs[r].pc = "text"
    /\ LET params == URLSearchParams(reqs[r].body)
       IN IF params = <<>>
          THEN /\ reqs' = [reqs EXCEPT ![r].pc = "done", ![r].threw = TRUE]
               /\ UNCHANGED storeVars
          ELSE /\ Issue(set(createTodo(params[1][2])[1],
                            createTodo(params[1][2])[2]))
               /\ reqs' = [reqs EXCEPT ![r].pc = "done",
                                       ![r].op = Len(ops) + 1]
    /\ UNCHANGED <<swState, initPc, activateWait, activateWork, caches>>
    /\ UNCHANGED spliceCall

\* The /create chain once e.request.text() has resolved: the body is parsed,
\* ([title, _]) => title takes the first name-value pair of the parameters,
\* ([, value]) => escapeHtml(value) takes that pair's value (and throws a
\* TypeError when there is no pair), createTodo makes the item and set stores
\* it.
CreateBodyRead(r) ==
    /\ reqs[r].pc = "text"
    /\ LET params == URLSearchParams(reqs[r].body)
       IN IF params = <<>>
          THEN /\ reqs' = [reqs EXCEPT ![r].pc = "done", ![r].threw = TRUE]
               /\ UNCHANGED storeVars
          ELSE /\ Issue(set(createTodo(escapeHtml(params[1][2]))[1],
                            createTodo(escapeHtml(params[1][2]))[2]))
               /\ reqs' = [reqs EXCEPT ![r].pc = "done",
                                       ![r].op = Len(ops) + 1]
    /\ UNCHANGED <<swState, initPc, activateWait, activateWork, caches>>
    /\ UNCHANGED spliceCall

\* The text of the document cached for "/", originalBody: markup (literal
\* chunks, as in a template) around one marker.
IndexHtml ==
    <<"<!DOCTYPE html><todo-app>">> \o lazyBoundary \o <<"</todo-app>">>

\* respondWithSpliced after caches.match("/"): res.clone() throws when nothing
\* matched; otherwise the shell's text is read and entries() is called.
RootMatched(r) ==
    /\ reqs[r].pc = "shell"
    /\ LET res == CachesMatch(caches, Url("/", ""))
       IN IF res = Undefined
          THEN /\ reqs' = [reqs EXCEPT ![r].pc = "done",
                                       ![r].resp = NetworkError]
               /\ UNCHANGED storeVars
          ELSE /\ Issue(entries)
               /\ reqs' = [reqs EXCEPT ![r].pc = "entries",
                                       ![r].matched = res,
                                       ![r].op = Len(ops) + 1]
    /\ UNCHANGED <<swState, initPc, activateWait, activateWork, caches>>
    /\ UNCHANGED spliceCall

\* respondWithSpliced after entries(): the new body is the shell's text
\* spliced with the stored items; a rejected entries() rejects the response.
RootResponds(r) ==
    /\ reqs[r].pc = "entries"
    /\ ops[reqs[r].op].promise # "pending"
    /\ reqs' = [reqs EXCEPT
                  ![r].pc = "done",
                  ![r].resp =
                      IF ops[reqs[r].op].promise = "resolved"
                      THEN LET data == [i \in DOMAIN ops[reqs[r].op].out |->
                                           ops[reqs[r].op].out[i][2]]
                           IN [kind |-> "response", status |-> 200,
                               from |-> reqs[r].matched.from,
                               url |-> reqs[r].matched.url,
                               data |-> data,
                               body |-> spliceResponseWithData(IndexHtml,
                                                               Array(data))]
                      ELSE NetworkError]
    /\ UNCHANGED <<swState, initPc, activateWait, activateWork, caches>>
    /\ UNCHANGED spliceCall
    /\ UNCHANGED storeVars

\* respondWithCache with no early return: a cached response is answered, and
\* the network is asked all the same.
AssetMatchedRevalidating(r) ==
    /\ reqs[r].pc = "match"
    /\ LET cacheRes == CachesMatch(caches, Url(reqs[r].path, reqs[r].search))
       IN reqs' = [reqs EXCEPT ![r].pc = "fetch",
                               ![r].matched = cacheRes,
                               ![r].resp = IF cacheRes # Undefined
                                           THEN cacheRes ELSE @]
    /\ UNCHANGED <<swState, initPc, activateWait, activateWork, caches>>
    /\ UNCHANGED spliceCall
    /\ UNCHANGED storeVars

\* respondWithCache after caches.match(request): a cached response is
\* returned; otherwise fetch(request) is called.
AssetMatched(r) ==
    /\ reqs[r].pc = "match"
    /\ LET cacheRes == CachesMatch(caches, Url(reqs[r].path, reqs[r].search))
       IN IF cacheRes # Undefined
          THEN reqs' = [reqs EXCEPT ![r].pc = "done",
                                    ![r].matched = cacheRes,
                                    ![r].resp = cacheRes]
          ELSE reqs' = [reqs EXCEPT ![r].pc = "fetch"]
    /\ UNCHANGED <<swState, initPc, activateWait, activateWork, caches>>
    /\ UNCHANGED spliceCall
    /\ UNCHANGED storeVars

\* fetch(request) has resolved; caches.open(STATIC_CACHE_NAME) is called.
AssetFetched(r) ==
    /\ reqs[r].pc = "fetch"
    /\ reqs' = [reqs EXCEPT ![r].pc = "open", ![r].fetches = @ + 1]
    /\ UNCHANGED <<swState, initPc, activateWait, activateWork, caches>>
    /\ UNCHANGED spliceCall
    /\ UNCHANGED storeVars

\* fetch(request) has rejected: respondWithCache rejects.
AssetFetchFails(r) ==
    /\ reqs[r].pc = "fetch"
    /\ reqs' = [reqs EXCEPT ![r].pc = "done", ![r].fetches = @ + 1,
                            ![r].resp = NetworkError]
    /\ UNCHANGED <<swState, initPc, activateWait, activateWork, caches>>
    /\ UNCHANGED spliceCall
    /\ UNCHANGED storeVars

\* A miss path that returns the fetched response and stores nothing.
AssetCacheOpenedNoPut(r) ==
    /\ reqs[r].pc = "open"
    /\ caches' = CachesOpen(caches, STATIC_CACHE_NAME)
    /\ reqs' = [reqs EXCEPT
                  ![r].pc = "done",
                  ![r].resp = NetworkResponse(Url(reqs[r].path,
                                                  reqs[r].search))]
    /\ UNCHANGED <<swState, initPc, activateWait, activateWork>>
    /\ UNCHANGED spliceCall
    /\ UNCHANGED storeVars

\* caches.open(STATIC_CACHE_NAME) has resolved: cache.put(request, clone) is
\* started, not awaited, and fetchRes is returned.
AssetCacheOpened(r) ==
    /\ reqs[r].pc = "open"
    /\ caches' = CachesOpen(caches, STATIC_CACHE_NAME)
    /\ reqs' = [reqs EXCEPT
                  ![r].pc = "put",
                  ![r].resp = NetworkResponse(Url(reqs[r].path,
                                                  reqs[r].search))]
    /\ UNCHANGED <<swState, initPc, activateWait, activateWork>>
    /\ UNCHANGED spliceCall
    /\ UNCHANGED storeVars

\* cache.put(request, fetchRes.clone()) has stored the response.
AssetPutDone(r) ==
    /\ reqs[r].pc = "put"
    /\ caches' = CachePutAll(caches, STATIC_CACHE_NAME,
                             {Url(reqs[r].path, reqs[r].search)})
    /\ reqs' = [reqs EXCEPT ![r].pc = "done", ![r].puts = @ + 1]
    /\ UNCHANGED <<swState, initPc, activateWait, activateWork>>
    /\ UNCHANGED spliceCall
    /\ UNCHANGED storeVars

\* The requests that reach the worker.
Requests ==
    {Task(p, "", NullKey, <<>>) : p \in {"/", "/index.html", "/favicon.ico"}}
    \cup {Task("/create", "", NullKey, b) : b \in Bodies}
    \cup {Task(p, "", id, <<>>) : p \in {"/delete", "/complete"}, id \in IdParams}
    \cup {Task("/main.js", s, NullKey, <<>>) : s \in {"", "?v=2"}}

\* The cache generations earlier deployments left behind.
InitialCaches ==
    { SubSeq([i \in DOMAIN OldCacheNames |->
                 [name |-> OldCacheNames[i], urls |-> AssetUrls]], 1, n)
        : n \in 0..Len(OldCacheNames) }

Init ==
    /\ store = "undefined"
    /\ dbState = "closed"
    /\ db = <<>>
    /\ ops = <<>>
    /\ nextSeq = 1
    /\ swState = "parsed"
    /\ initPc = "idle"
    /\ activateWait = "none"
    /\ activateWork = "idle"
    /\ caches \in InitialCaches
    /\ reqs = <<>>
    /\ spliceCall = NoCall

Next ==
    \/ InstallEvent
    \/ CacheStaticOpened
    \/ CacheStaticAdded
    \/ CacheStaticFails
    \/ ActivateEvent
    \/ Activated
    \/ \E t \in Requests : FetchEvent(t)
    \/ \E r \in DOMAIN reqs : CreateBodyRead(r)
    \/ \E r \in DOMAIN reqs : RootMatched(r)
    \/ \E r \in DOMAIN reqs : RootResponds(r)
    \/ \E r \in DOMAIN reqs : AssetMatched(r)
    \/ \E r \in DOMAIN reqs : AssetFetched(r)
    \/ \E r \in DOMAIN reqs : AssetFetchFails(r)
    \/ \E r \in DOMAIN reqs : AssetCacheOpened(r)
    \/ \E r \in DOMAIN reqs : AssetPutDone(r)
    \/ Engine

Spec == Init /\ [][Next]_vars

\* ------------------------------------------- respondWithCache, called directly
\* The worker is activated: the installation has filled the current
\* generation, after the generations earlier deployments left behind, and
\* has created the store.  Asset requests arrive, with and without a query
\* string.
AssetRequests == {Task("/main.js", s, NullKey, <<>>) : s \in {"", "?v=2", "?v=3"}}

InitServe ==
    /\ store = "created"
    /\ dbState = "open"
    /\ db = <<>>
    /\ ops = <<>>
    /\ nextSeq = 1
    /\ swState = "activated"
    /\ initPc = "done"
    /\ activateWait = "fulfilled"
    /\ activateWork = "notCalled"
    /\ caches \in {CachePutAll(CachesOpen(cs, STATIC_CACHE_NAME),
                                STATIC_CACHE_NAME, AssetUrls)
                        : cs \in InitialCaches}
    /\ reqs = <<>>
    /\ spliceCall = NoCall

NextServe ==
    \/ \E t \in AssetRequests : FetchEvent(t)
    \/ \E r \in DOMAIN reqs : AssetMatched(r)
    \/ \E r \in DOMAIN reqs : AssetFetched(r)
    \/ \E r \in DOMAIN reqs : AssetFetchFails(r)
    \/ \E r \in DOMAIN reqs : AssetCacheOpened(r)
    \/ \E r \in DOMAIN reqs : AssetPutDone(r)

\* Each awaited step of respondWithCache settles: caches.match, fetch and
\* caches.open resolve or reject, and a cache.put that was started stores its
\* response.
SpecServe ==
    /\ InitServe /\ [][NextServe]_vars
    /\ WF_vars(\E r \in DOMAIN reqs : AssetMatched(r))
    /\ WF_vars(\E r \in DOMAIN reqs : AssetFetched(r) \/ AssetFetchFails(r))
    /\ WF_vars(\E r \in DOMAIN reqs : AssetCacheOpened(r))
    /\ WF_vars(\E r \in DOMAIN reqs : AssetPutDone(r))

\* =================================================================== claims

\* C1 as stated: once the activate event has been handled and what its
\* waitUntil tracks has settled, every cache generation but the current one is
\* deleted: exactly the current generation remains.
C1_OnlyCurrentGenerationRemains ==
    swState = "activated" => CacheNames(caches) = {STATIC_CACHE_NAME}

\* C2: update(key, updater) reads and writes in one read-write transaction:
\* whatever other set/update/del calls are in flight, the value an update
\* commits is the updater applied to the value the key holds at that commit,
\* which is the value the update read (no write to the key commits between
\* the read and the write).
C2_UpdateIsAtomic ==
    \A i \in DOMAIN ops :
        (ops[i].kind = "update" /\ ops[i].wrote # NoWrite)
            => /\ ops[i].wrote = PutWrite(Apply(ops[i].upd, ops[i].pre))
               /\ ops[i].result = ops[i].pre

\* An update has committed its write although another write to the same key
\* was issued (its transaction created) between the update's read and the
\* update's commit, and has committed since.
C2_Witness ==
    \E i, j \in DOMAIN ops :
        /\ i # j
        /\ ops[i].kind = "update" /\ ops[i].wrote # NoWrite
        /\ ops[j].kind \in {"set", "del"} /\ ops[j].key = ops[i].key
        /\ ops[j].wrote # NoWrite
        /\ ops[i].readAt <= ops[j].seq /\ ops[j].seq < ops[i].doneAt

\* Whether the updater of call i has thrown: its read succeeded and handed the
\* value to an updater that throws.
UpdaterThrew(i) ==
    ops[i].kind = "update" /\ ops[i].pc > 1 /\ Throws(ops[i].upd, ops[i].result)

\* C6 as stated: when the updater throws, the transaction is aborted, the
\* update rejects and no write is committed.
C6_ThrowAbortsTransaction ==
    \A i \in DOMAIN ops :
        (UpdaterThrew(i) /\ ops[i].st # "live")
            => /\ ops[i].st = "aborted"
               /\ ops[i].promise = "rejected"
               /\ ops[i].wrote = NoWrite

\* C6 amended: when the updater throws, the update rejects, no write is placed
\* or committed for the key, and the transaction is not aborted: it completes
\* with nothing written.
C6_ThrowRejectsAndWritesNothing ==
    \A i \in DOMAIN ops :
        UpdaterThrew(i)
            => /\ ops[i].promise = "rejected"
               /\ ops[i].wbuf = NoWrite
               /\ ops[i].wrote = NoWrite
               /\ ops[i].st \in {"live", "committed"}

\* An update whose updater threw has finished, on a key that holds a value.
C6_Witness ==
    \E i \in DOMAIN ops :
        /\ UpdaterThrew(i)
        /\ ops[i].st = "committed"
        /\ ops[i].key \in DOMAIN db

\* C7: del(key) of a key absent from the store succeeds and leaves every entry
\* unchanged (so a second del of a key equals the first): the commit of such a
\* del changes nothing and resolves it, and a del of a valid key is rejected
\* only when the storage engine failed its request, its commit or the
\* database's opening.
C7_DelAbsentIsNoOp ==
    /\ [](\A i \in DOMAIN ops :
            (ops[i].kind = "del" /\ ValidKey(ops[i].key)
                                 /\ ops[i].promise = "rejected")
                => ops[i].st \in {"aborted", "nodb"})
    /\ [][\A i \in DOMAIN ops :
            (/\ ops[i].kind = "del" /\ ValidKey(ops[i].key)
             /\ ops[i].key \notin DOMAIN db
             /\ ops[i].st = "live" /\ ops'[i].st = "committed")
                => (db' = db /\ ops'[i].promise = "resolved")]_vars

\* Two dels of one key have both committed, the later one on the absent key.
C7_Witness ==
    \E i, j \in DOMAIN ops :
        /\ i # j
        /\ ops[i].kind = "del" /\ ops[j].kind = "del"
        /\ ops[i].key = ops[j].key
        /\ ops[i].st = "committed" /\ ops[j].st = "committed"
        /\ ops[j].pre = Undefined /\ ops[j].wrote = DeleteWrite
        /\ ops[j].promise = "resolved"

\* C8: every store call whose request or transaction failed (or whose database
\* could not be opened) is rejected: never left pending, never resolved.
C8_FailureRejects ==
    \A i \in DOMAIN ops :
        ops[i].st \in {"aborted", "nodb"} => ops[i].promise = "rejected"

MutationPaths == {"/create", "/delete", "/complete"}

\* C3: the response to every /create, /delete and /complete request is the 303
\* redirect to "/", in every state of its storage write: not yet issued,
\* waiting, committed, failed or rejected.
C3_MutationAnswersRedirect ==
    \A r \in DOMAIN reqs :
        reqs[r].path \in MutationPaths
            => reqs[r].resp = [kind |-> "response", status |-> 303,
                               location |-> "/"]

\* A mutation request whose write was aborted by the storage engine has the
\* redirect as its response.
C3_Witness ==
    \E r \in DOMAIN reqs :
        /\ reqs[r].path \in MutationPaths
        /\ reqs[r].op # 0
        /\ ops[reqs[r].op].st = "aborted"
        /\ ops[reqs[r].op].promise = "rejected"
        /\ reqs[r].resp.status = 303

HasField(params, name) == \E i \in DOMAIN params : params[i][1] = name
FieldValue(params, name) ==
    params[CHOOSE i \in DOMAIN params :
              params[i][1] = name /\ \A j \in 1..(i - 1) : params[j][1] # name][2]
NoEscapedCharacter(text) ==
    \A i \in DOMAIN text : text[i] \notin DOMAIN ENTITY_MAP

\* C5 as stated: from an empty store, once the write of the one /create
\* request, whose body carries the title t (t without escaped characters), has
\* committed, entries() yields exactly one entity: title t, completed false,
\* id equal to its key.
C5_CreateRoundTrip ==
    \A r \in DOMAIN reqs :
        LET params == URLSearchParams(reqs[r].body)
        IN (/\ reqs[r].path = "/create"
            /\ HasField(params, TitleName)
            /\ NoEscapedCharacter(FieldValue(params, TitleName))
            /\ \A q \in DOMAIN reqs \ {r} : reqs[q].path \notin MutationPaths
            /\ reqs[r].op # 0
            /\ ops[reqs[r].op].st = "committed")
           => LET id == ops[reqs[r].op].key
                  expected == <<<<id, TodoItem(id, FieldValue(params, TitleName),
                                               FALSE)>>>>
              IN /\ Zip(GetAllKeys(db), GetAll(db)) = expected
                 /\ \A j \in DOMAIN ops :
                       (/\ ops[j].kind = "entries"
                        /\ ops[j].promise = "resolved"
                        /\ ops[j].seq > ops[reqs[r].op].seq)
                           => ops[j].out = expected

\* C9 as stated: every entry of the store holds a full TodoItem record whose
\* id is the entry's key.
C9_EntriesAreTodoItems ==
    \A k \in DOMAIN db : IsTodoItem(db[k]) /\ db[k].id = k

\* C10 as stated: fetch events are handled only after the work handed to
\* waitUntil by the install listener (init) and by the activate listener
\* (cleanCache, then clients.claim) has completed.
C10_FetchAfterLifecycleWork ==
    reqs # <<>>
        => /\ initPc = "done"
           /\ activateWork = "done"
           /\ caches = cleanCache(caches)

CurrentGeneration ==
    {caches[i].urls : i \in {j \in DOMAIN caches :
                                caches[j].name = STATIC_CACHE_NAME}}

\* C11: installation is all-or-nothing over the asset manifest.  Once the
\* installation has succeeded, the current cache generation holds every path
\* of the manifest; when cache.addAll fails (the fetch of some path failed)
\* nothing is stored in the current generation, the installation fails and
\* init has not created the store handle.
C11_InstallAllOrNothing ==
    /\ swState \in {"installed", "activating", "activated"}
          => /\ initPc = "done"
             /\ CurrentGeneration # {}
             /\ \A urls \in CurrentGeneration : AssetUrls \subseteq urls
    /\ initPc = "failed"
          => /\ swState = "redundant"
             /\ store = "undefined"
             /\ \A urls \in CurrentGeneration : urls = {}

\* The populate has failed after the current generation was opened, with
\* older generations present.
C11_Witness ==
    /\ initPc = "failed"
    /\ swState = "redundant"
    /\ CurrentGeneration = {{}}
    /\ Len(caches) > 1

\* The places of the marker in the shell handed to spliceResponseWithData.
MarkerPlaces ==
    {i \in 1..Len(spliceCall.cachedContent) :
        StartsAt(spliceCall.cachedContent, lazyBoundary, i)}

\* The call has returned, for a shell with exactly one marker and a non-empty
\* item list.
SplicedOneMarker ==
    /\ spliceCall.called /\ spliceCall.returned
    /\ spliceCall.data # Undefined
    /\ spliceCall.data.array # <<>>
    /\ Cardinality(MarkerPlaces) = 1

BeforeMarker(i) == SubSeq(spliceCall.cachedContent, 1, i - 1)
AfterMarker(i) ==
    SubSeq(spliceCall.cachedContent, i + Len(lazyBoundary),
           Len(spliceCall.cachedContent))

\* C12 as stated: for a shell head + marker + tail with exactly one marker and
\* a non-empty item list, spliceResponseWithData returns exactly
\* head + generateTodos(items) + tail, nothing else added or dropped.
C12_SpliceIsExact ==
    SplicedOneMarker
        => \A i \in MarkerPlaces :
              spliceCall.newBody =
                  BeforeMarker(i) \o generateTodos(spliceCall.data)
                                 \o AfterMarker(i)

\* C12 amended: for such a shell and list, spliceResponseWithData returns
\* head, generateTodos(items) and tail in this order, each verbatim and each
\* on a line of its own: a line break and four spaces precede each of the
\* three, and a line break and two spaces end the text.  The marker is gone.
C12_SpliceKeepsHeadAndTail ==
    SplicedOneMarker
        => \A i \in MarkerPlaces :
              /\ spliceCall.newBody =
                    <<"\n    ">> \o BeforeMarker(i)
                    \o <<"\n    ">> \o generateTodos(spliceCall.data)
                    \o <<"\n    ">> \o AfterMarker(i)
                    \o <<"\n  ">>
              /\ ~Includes(spliceCall.newBody, lazyBoundary)

\* Such a call has returned, for a shell with text on both sides of its
\* marker and two items.
C12_Witness ==
    /\ SplicedOneMarker
    /\ Len(spliceCall.data.array) = 2
    /\ \A i \in MarkerPlaces : BeforeMarker(i) # <<>> /\ AfterMarker(i) # <<>>

\* C13 as stated: for a shell that does not contain the marker, and any item
\* list, spliceResponseWithData returns the shell unchanged.
C13_NoMarkerShellUnchanged ==
    (spliceCall.called /\ spliceCall.returned /\ MarkerPlaces = {})
        => spliceCall.newBody = spliceCall.cachedContent

\* C14 as stated: when the item list is empty or absent,
\* spliceResponseWithData returns the shell unmodified, with no marker
\* substitution.
C14_EmptyItemsShellUnchanged ==
    (/\ spliceCall.called /\ spliceCall.returned
     /\ (spliceCall.data = Undefined \/ spliceCall.data = Array(<<>>)))
        => spliceCall.newBody = spliceCall.cachedContent

\* C15 as stated: a /create request raises no error whatever its body; once
\* its body is read, a new entity with completed = false is handed to set,
\* whose title is derived from the body's title field when there is one (and
\* from no other field), and is empty when there is none.
C15_CreateTakesTitleField ==
    \A r \in DOMAIN reqs :
        (reqs[r].path = "/create" /\ reqs[r].pc = "done")
            => LET params == URLSearchParams(reqs[r].body)
               IN /\ ~reqs[r].threw
                  /\ reqs[r].op # 0
                  /\ ops[reqs[r].op].kind = "set"
                  /\ ops[reqs[r].op].val.completed = FALSE
                  /\ ops[reqs[r].op].val.title =
                        IF HasField(params, TitleName)
                        THEN escapeHtml(FieldValue(params, TitleName))
                        ELSE <<>>

\* The characters escapeHtml replaces, but for the ampersand that its
\* entities begin with.
RawCharacters == DOMAIN ENTITY_MAP \ {"&"}

\* The "/" responses that carry an assembled page.
Pages ==
    {r \in DOMAIN reqs :
        /\ reqs[r].path \in {"/", "/index.html"}
        /\ reqs[r].resp.kind = "response"
        /\ reqs[r].resp.status = 200}

\* The ids createTodo has made.
CreatedIds == {ops[i].key : i \in {j \in DOMAIN ops : ops[j].kind = "set"}}

\* C16: in every page assembled for "/", no character of & < > " ' / ` =
\* stands unescaped (the markup is the literal chunks of the templates and of
\* the shell; an ampersand begins one of escapeHtml's entities), and the only
\* ids embedded are ids createTodo made, never text of an id query parameter.
C16_PageHoldsNoRawCharacter ==
    \A r \in Pages :
        LET body == reqs[r].resp.body
        IN \A i \in 1..Len(body) :
              /\ body[i] \notin RawCharacters
              /\ body[i] = "&"
                    => \E c \in DOMAIN ENTITY_MAP :
                          StartsAt(body, ENTITY_MAP[c], i)
              /\ body[i] \in {KeyOrder[k] : k \in DOMAIN KeyOrder} \cup {NullKey}
                    => body[i] \in CreatedIds

\* A page lists an item whose title came with a "<" in a /create body, the
\* "<" now being the entity.
C16_Witness ==
    \E r \in Pages : \E q \in DOMAIN reqs :
        /\ reqs[q].path = "/create"
        /\ Occurs("<", reqs[q].body)
        /\ reqs[q].op # 0
        /\ ops[reqs[q].op].st = "committed"
        /\ reqs[r].resp.data = <<ops[reqs[q].op].val>>
        /\ Includes(reqs[r].resp.body, ENTITY_MAP["<"])

\* The /complete writes: the committed writes of update(id, completeTodo) on
\* a key that held an entity.
Completions ==
    {i \in DOMAIN ops :
        /\ ops[i].kind = "update" /\ ops[i].upd = "completeTodo"
        /\ ops[i].wrote # NoWrite
        /\ ops[i].pre # Undefined /\ IsTodoItem(ops[i].pre)}

\* C17: completeTodo is idempotent, and completeTodo(e) is e but for
\* completed = true, for every entity e of the store and every entity a
\* completion was applied to; a completion of an entity already completed
\* writes the entity it read, so that two completions of one entity both
\* leave completeTodo(e) under the key.
C17_CompleteIsIdempotent ==
    /\ \A k \in DOMAIN db :
          IsTodoItem(db[k])
              => /\ completeTodo(completeTodo(db[k])) = completeTodo(db[k])
                 /\ completeTodo(db[k]) = [db[k] EXCEPT !.completed = TRUE]
    /\ \A i \in Completions :
          /\ ops[i].wrote.v = [ops[i].pre EXCEPT !.completed = TRUE]
          /\ ops[i].result = ops[i].pre
          /\ ops[i].pre.completed => ops[i].wrote.v = ops[i].pre
    /\ \A i, j \in Completions :
          (/\ ops[i].key = ops[j].key
           /\ ops[i].pre.id = ops[j].pre.id
           /\ ops[i].pre.title = ops[j].pre.title)
              => ops[i].wrote = ops[j].wrote

\* Two completions of one entity, not completed at first, have both
\* committed, and the store holds the completed entity.
C17_Witness ==
    \E i, j \in Completions :
        /\ i # j
        /\ ops[i].key = ops[j].key
        /\ ~ops[i].pre.completed
        /\ ops[j].pre = ops[i].wrote.v
        /\ ops[i].key \in DOMAIN db
        /\ db[ops[i].key] = completeTodo(ops[i].pre)

\* The asset requests that found no cached response: they went on to fetch.
Missed(r) ==
    /\ r \in DOMAIN reqs
    /\ reqs[r].path = "/main.js"
    /\ reqs[r].matched = Undefined
    /\ reqs[r].pc # "match"

RequestUrl(r) == Url(reqs[r].path, reqs[r].search)

InCurrentGeneration(url) ==
    CurrentGeneration # {} /\ \A urls \in CurrentGeneration : url \in urls

\* C18: the cache miss path of respondWithCache.  A request that found no
\* cached response performs one live fetch and no more.  When the fetch
\* succeeds the fetched response is returned and is eventually stored in the
\* current generation under the request, after which an identical request
\* is a hit.  When the fetch fails the response is the failure and no cache
\* is written.
C18_CacheMissPath ==
    /\ [](\A r \in DOMAIN reqs :
            Missed(r)
                => /\ reqs[r].fetches = (IF reqs[r].pc = "fetch" THEN 0 ELSE 1)
                   /\ reqs[r].pc \in {"put", "done"}
                         => reqs[r].resp \in {NetworkResponse(RequestUrl(r)),
                                              NetworkError}
                   /\ reqs[r].resp = NetworkError => reqs[r].puts = 0
                   /\ reqs[r].puts = 1 => InCurrentGeneration(RequestUrl(r)))
    /\ \A r \in 1..MaxRequests :
          (Missed(r) /\ reqs[r].resp = NetworkResponse(RequestUrl(r)))
              ~> (/\ r \in DOMAIN reqs
                  /\ reqs[r].puts = 1
                  /\ InCurrentGeneration(RequestUrl(r)))
    /\ [][\A r \in DOMAIN reqs :
            /\ (reqs[r].pc = "fetch" /\ reqs'[r].resp = NetworkError)
                  => caches' = caches
            /\ (/\ reqs[r].pc = "match" /\ reqs'[r].pc # "match"
                /\ \E q \in DOMAIN reqs :
                      /\ Missed(q) /\ reqs[q].puts = 1
                      /\ RequestUrl(q) = RequestUrl(r))
                  => /\ reqs'[r].pc = "done"
                     /\ reqs'[r].resp =
                           Response(200, STATIC_CACHE_NAME, RequestUrl(r))]_vars

\* A request missed, fetched and stored its response, and a later identical
\* request was answered from the current generation.
C18_Witness ==
    \E q, r \in DOMAIN reqs :
        /\ q < r
        /\ Missed(q) /\ reqs[q].puts = 1 /\ reqs[q].fetches = 1
        /\ RequestUrl(q) = RequestUrl(r)
        /\ reqs[r].pc = "done" /\ reqs[r].fetches = 0
        /\ reqs[r].resp = Response(200, STATIC_CACHE_NAME, RequestUrl(r))

\* C19 as stated: the cached response respondWithCache returns on a hit, and
\* the shell respondWithSpliced uses, come from the cache generation named
\* for the current version, also while generations of earlier versions exist.
C19_HitFromCurrentGeneration ==
    \A r \in DOMAIN reqs :
        reqs[r].matched # Undefined
            => reqs[r].matched.from = STATIC_CACHE_NAME

\* The entries of the store that a step leaves under their key.
Kept == DOMAIN db \cap DOMAIN db'

\* C20 as stated: an entry appears in the store as a TodoItem with completed
\* = false; an entry that stays under its key keeps its id and title and
\* either stays as it is or gets completed = true; completed never goes from
\* true to false.
C20_LifecycleIsOneWay ==
    [][/\ \A k \in DOMAIN db' \ DOMAIN db :
             IsTodoItem(db'[k]) /\ db'[k].id = k /\ db'[k].completed = FALSE
       /\ \A k \in Kept :
             /\ db'[k] \in {db[k], completeTodo(db[k])}
             /\ db[k].completed => db'[k].completed]_vars

====
